---- MODULE Spec2Model ----
(***************************************************************************)
(* Matching lifecycle and membership of togeeat-be: the matching           *)
(* controller (src/src/matching/matching.controller.ts) on top of the      *)
(* matching repository (src/src/matching/matching.repository.ts).          *)
(*                                                                         *)
(* The database is two tables: matchings (rows keyed by an autoincrement   *)
(* id) and userMatchings (membership rows, kept as a bag so that a         *)
(* duplicated row is a representable state).  Every await of a handler is  *)
(* a point where other requests run, so a handler with two storage calls   *)
(* is two steps joined by an entry of inflight.                            *)
(***************************************************************************)
EXTENDS Integers, Sequences, FiniteSets, Bags, TLC

\* ---------------------------------------------------------------- bounds
MaxUsers == 2
MaxMatchings == 2
MaxTime == 1
MaxInflight == 2

UserIds == 1..MaxUsers
MatchingIds == 1..MaxMatchings

\* An optional field of a DTO or a nullable column: {} is absent, {v} is v.
None == {}
Some(v) == {v}
Val(x) == CHOOSE v \in x : TRUE

MatchingTypes == {"QUICK", "YOTEI"}

VARIABLES
    matchings,       \* table matching: id -> row, DOMAIN = the ids that exist
    userMatchings,   \* table userMatching: bag of rows <<matchingId, userId>>
    nextId,          \* autoincrement sequence of matching.id
    now,             \* the clock read by new Date()
    inflight,        \* bag of continuations of handlers suspended at an await
    last             \* the step just taken: operation, arguments, response

vars == <<matchings, userMatchings, nextId, now, inflight, last>>

\* ------------------------------------------------------- storage gateway
\* A row of userMatching.
Row(matchingId, userId) == <<matchingId, userId>>

RowsOf(matchingId) ==
    {r \in BagToSet(userMatchings) : r[1] = matchingId}

\* MatchingRepository.findOne: the row with its membership rows, or absent.
findOne(id) ==
    IF id \in DOMAIN matchings
    THEN Some([matching |-> matchings[id], userMatchings |-> RowsOf(id)])
    ELSE None

\* The columns prisma.matching.create is given no value for.
ColumnDefaults == [status |-> "OPEN", createdAt |-> now]

\* MatchingRepository.create with the spread written last, {ownerId, ...data}:
\* an ownerId in the body wins over the caller.
MatchingRepository_createBodyOwner(ownerId, data) ==
    nextId :> [ownerId      |-> IF data.ownerId # None
                                THEN Val(data.ownerId) ELSE ownerId,
               matchingType |-> data.matchingType,
               duration     |-> data.duration,
               matchingDate |-> data.matchingDate,
               status       |-> ColumnDefaults.status,
               createdAt    |-> ColumnDefaults.createdAt]

\* MatchingRepository.create: prisma.matching.create({data: {...data, ownerId}}).
\* The ownerId argument is written after the spread, so it replaces an
\* ownerId of the body.  id comes from the autoincrement sequence, status and
\* createdAt from the column defaults.
MatchingRepository_create(ownerId, data) ==
    nextId :> [ownerId      |-> ownerId,
               matchingType |-> data.matchingType,
               duration     |-> data.duration,
               matchingDate |-> data.matchingDate,
               status       |-> ColumnDefaults.status,
               createdAt    |-> ColumnDefaults.createdAt]

\* addUserToMatching on a table without the compound unique key.
addUserToMatchingNoUnique(matchingId, userId) ==
    IF matchingId \notin DOMAIN matchings
    THEN [rows |-> userMatchings, error |-> "ForeignKeyViolation"]
    ELSE [rows  |-> userMatchings (+) SetToBag({Row(matchingId, userId)}),
          error |-> "none"]

\* addUserToMatching on a table that does not reference matching.
addUserToMatchingNoParent(matchingId, userId) ==
    IF CopiesIn(Row(matchingId, userId), userMatchings) > 0
    THEN [rows |-> userMatchings, error |-> "UniqueViolation"]
    ELSE [rows  |-> userMatchings (+) SetToBag({Row(matchingId, userId)}),
          error |-> "none"]

\* MatchingRepository.addUserToMatching: prisma.userMatching.create.  The
\* table has the compound unique key userId_matchingId and references
\* matching, so the insert is refused for a duplicate and for a missing parent.
addUserToMatching(matchingId, userId) ==
    IF matchingId \notin DOMAIN matchings
    THEN [rows |-> userMatchings, error |-> "ForeignKeyViolation"]
    ELSE IF CopiesIn(Row(matchingId, userId), userMatchings) > 0
    THEN [rows |-> userMatchings, error |-> "UniqueViolation"]
    ELSE [rows  |-> userMatchings (+) SetToBag({Row(matchingId, userId)}),
          error |-> "none"]

\* removeUserFromMatching as a deleteMany by matchingId alone.
removeUserFromMatchingAll(matchingId, userId) ==
    [rows  |-> [r \in {x \in BagToSet(userMatchings) : x[1] # matchingId}
                   |-> userMatchings[r]],
     error |-> "none"]

\* MatchingRepository.removeUserFromMatching: prisma.userMatching.delete by
\* the compound key; it throws when no such row exists.
removeUserFromMatching(matchingId, userId) ==
    IF CopiesIn(Row(matchingId, userId), userMatchings) = 0
    THEN [rows |-> userMatchings, error |-> "RecordNotFound"]
    ELSE [rows  |-> userMatchings (-) SetToBag({Row(matchingId, userId)}),
          error |-> "none"]

\* updateStatus as an update of one row: only the oldest expired OPEN row.
updateStatusFirst ==
    LET due == {id \in DOMAIN matchings :
                    /\ matchings[id].matchingDate # None
                    /\ Val(matchings[id].matchingDate) <= now
                    /\ matchings[id].status = "OPEN"}
    IN  [id \in DOMAIN matchings |->
            IF id \in due /\ \A other \in due : id <= other
            THEN [matchings[id] EXCEPT !.status = "CLOSED"]
            ELSE matchings[id]]

\* updateStatus without the status filter, flipping the status it finds.
updateStatusFlip ==
    [id \in DOMAIN matchings |->
        IF /\ matchings[id].matchingDate # None
           /\ Val(matchings[id].matchingDate) <= now
        THEN [matchings[id] EXCEPT
                !.status = IF @ = "OPEN" THEN "CLOSED" ELSE "OPEN"]
        ELSE matchings[id]]

\* MatchingRepository.updateStatus: one updateMany closing every OPEN row
\* whose matchingDate is at or before new Date().
updateStatus ==
    [id \in DOMAIN matchings |->
        IF /\ matchings[id].matchingDate # None
           /\ Val(matchings[id].matchingDate) <= now
           /\ matchings[id].status = "OPEN"
        THEN [matchings[id] EXCEPT !.status = "CLOSED"]
        ELSE matchings[id]]

\* The relation userMatching -> matching deletes the membership rows with
\* their matching.
CascadeUserMatchings(id) ==
    LET gone == {r \in BagToSet(userMatchings) : r[1] = id}
    IN  [r \in BagToSet(userMatchings) \ gone |-> userMatchings[r]]

\* delete leaving the userMatching rows of the matching behind.
deleteKeepRows(id) ==
    IF id \notin DOMAIN matchings
    THEN [matchings |-> matchings, rows |-> userMatchings,
          error |-> "RecordNotFound"]
    ELSE [matchings |-> [i \in DOMAIN matchings \ {id} |-> matchings[i]],
          rows      |-> userMatchings,
          error     |-> "none"]

\* MatchingRepository.delete: prisma.matching.delete({where: {id}}).
delete(id) ==
    IF id \notin DOMAIN matchings
    THEN [matchings |-> matchings, rows |-> userMatchings,
          error |-> "RecordNotFound"]
    ELSE [matchings |-> [i \in DOMAIN matchings \ {id} |-> matchings[i]],
          rows      |-> CascadeUserMatchings(id),
          error     |-> "none"]

\* MatchingRepository.listActive: count and findMany of the OPEN rows,
\* wrapped in PaginationDto(total, items).  prisma.$transaction([...]) runs
\* the two statements one after the other in one transaction at the
\* database's default isolation level; the database is PostgreSQL
\* (docker-compose.yml), whose default is READ COMMITTED: each statement
\* reads the rows committed when that statement starts.
RECURSIVE AscendingIds(_)
AscendingIds(S) ==
    IF S = {} THEN << >>
    ELSE LET m == CHOOSE x \in S : \A y \in S : x <= y
         IN  <<m>> \o AscendingIds(S \ {m})

OpenIds == {id \in DOMAIN matchings : matchings[id].status = "OPEN"}

\* prisma.matching.count({where: {status: OPEN}})
listActiveCount == Cardinality(OpenIds)

\* prisma.matching.findMany({where: {status: OPEN}, skip: offset, take: limit})
listActiveFindMany(limit, offset) ==
    LET all   == AscendingIds(OpenIds)
        lastI == IF offset + limit < Len(all) THEN offset + limit ELSE Len(all)
    IN  SubSeq(all, offset + 1, lastI)

PaginationDto(total, items) == [total |-> total, items |-> items]

\* ----------------------------------------------------------- responses
\* The response of a handler: the exception class it throws, or Success.
\* BadRequestException is the ValidationError of the error taxonomy,
\* NotFoundException the NotFoundError, ForbiddenException the
\* ForbiddenError; StorageError is a storage exception nobody catches.
NoPage == [total |-> 0, items |-> << >>]
NoDto ==
    [matchingType |-> "", duration |-> None, matchingDate |-> None,
     ownerId |-> None]

\* What the caller sent: the matching id of the route, the verified caller,
\* the userId query parameter and the body.
Request(id, user, target, dto) ==
    [id |-> id, user |-> user, target |-> target, dto |-> dto]

NoRequest == Request(0, 0, None, NoDto)

Respond(op, request, result, message) ==
    [op |-> op, request |-> request, result |-> result, message |-> message,
     page |-> NoPage]

Response(op, result, message) == Respond(op, NoRequest, result, message)

\* What a suspended handler still holds: for listActive the query and the
\* count it has read, for the others the matching and the user.
Continuation(op, id, user) ==
    [op |-> op, id |-> id, user |-> user, limit |-> 0, offset |-> 0,
     total |-> 0]

ListContinuation(limit, offset, total) ==
    [op |-> "listActive", id |-> 0, user |-> 0, limit |-> limit,
     offset |-> offset, total |-> total]

Suspend(c) == inflight (+) SetToBag({c})
Resume(c) == inflight (-) SetToBag({c})
CanSuspend == BagCardinality(inflight) < MaxInflight

\* ------------------------------------------------- MatchingController
\* JavaScript truthiness of an optional number: undefined and 0 are falsy.
Truthy(x) == x # None /\ Val(x) # 0

\* createValidation whose first check forgets the YOTEI half.
createValidationQuickOnly(dto) ==
    IF dto.matchingType = "QUICK" /\ ~Truthy(dto.duration)
    THEN "Missing duration or matching date"
    ELSE IF Truthy(dto.duration) /\ Val(dto.duration) < 0
    THEN "Invalid duration"
    ELSE IF dto.matchingDate # None /\ Val(dto.matchingDate) < now
    THEN "Invalid matching date"
    ELSE ""

\* createValidation whose second check is duration <= 0 on a given duration.
createValidationNonPositive(dto) ==
    IF \/ (dto.matchingType = "QUICK" /\ ~Truthy(dto.duration))
       \/ (dto.matchingType = "YOTEI" /\ dto.matchingDate = None)
    THEN "Missing duration or matching date"
    ELSE IF dto.duration # None /\ Val(dto.duration) <= 0
    THEN "Invalid duration"
    ELSE IF dto.matchingDate # None /\ Val(dto.matchingDate) < now
    THEN "Invalid matching date"
    ELSE ""

\* The three checks of MatchingController.create, in order; "" when all pass.
createValidation(dto) ==
    IF \/ (dto.matchingType = "QUICK" /\ ~Truthy(dto.duration))
       \/ (dto.matchingType = "YOTEI" /\ dto.matchingDate = None)
    THEN "Missing duration or matching date"
    ELSE IF Truthy(dto.duration) /\ Val(dto.duration) < 0
    THEN "Invalid duration"
    ELSE IF dto.matchingDate # None /\ Val(dto.matchingDate) < now
    THEN "Invalid matching date"
    ELSE ""

\* POST /matching
create(currentUserId, createMatchingDto) ==
    LET message == createValidation(createMatchingDto)
        request == Request(0, currentUserId, None, createMatchingDto)
    IN  IF message # ""
        THEN /\ last' = Respond("create", request, "ValidationError", message)
             /\ UNCHANGED <<matchings, userMatchings, nextId, now, inflight>>
        ELSE /\ nextId <= MaxMatchings
             /\ matchings' = matchings @@
                    MatchingRepository_create(currentUserId, createMatchingDto)
             /\ nextId' = nextId + 1
             /\ last' = Respond("create", request, "Success", "")
             /\ UNCHANGED <<userMatchings, now, inflight>>

\* GET /matching with no filter: MatchingService.list hands the query to
\* listActive.  Up to the end of the count.
list(limit, offset) ==
    /\ CanSuspend
    /\ inflight' = Suspend(ListContinuation(limit, offset, listActiveCount))
    /\ last' = Response("list", "pending", "")
    /\ UNCHANGED <<matchings, userMatchings, nextId, now>>

\* GET /matching, the findMany and the response.
listActive(limit, offset, total) ==
    LET c == ListContinuation(limit, offset, total)
    IN  /\ BagIn(c, inflight)
        /\ inflight' = Resume(c)
        /\ last' = [Response("listActive", "Success", "") EXCEPT
                      !.page = PaginationDto(total,
                                   listActiveFindMany(limit, offset))]
        /\ UNCHANGED <<matchings, userMatchings, nextId, now>>

\* GET /matching/:id
MatchingController_findOne(id) ==
    /\ last' = IF findOne(id) = None
               THEN Respond("findOne", Request(id, 0, None, NoDto),
                            "NotFoundError", "")
               ELSE Respond("findOne", Request(id, 0, None, NoDto),
                            "Success", "")
    /\ UNCHANGED <<matchings, userMatchings, nextId, now, inflight>>

\* MatchingService.joinUser, before the insert: a matching that does not
\* exist is NotFoundError.
joinUserLookup(matchingId) ==
    IF findOne(matchingId) = None THEN "NotFoundError" ELSE ""

\* MatchingService.joinUser, after the insert: the storage layer's refusal
\* of a duplicate is ConflictError, of a missing matching NotFoundError.
joinUserResult(error) ==
    CASE error = "none" -> "Success"
      [] error = "UniqueViolation" -> "ConflictError"
      [] error = "ForeignKeyViolation" -> "NotFoundError"

\* PATCH /matching/join/:id, up to the insert.
joinMatching(id, userId) ==
    IF joinUserLookup(id) # ""
    THEN /\ last' = Respond("joinMatching", Request(id, userId, None, NoDto),
                            joinUserLookup(id), "")
         /\ UNCHANGED <<matchings, userMatchings, nextId, now, inflight>>
    ELSE /\ CanSuspend
         /\ inflight' = Suspend(Continuation("joinUser", id, userId))
         /\ last' = Respond("joinMatching", Request(id, userId, None, NoDto),
                            "pending", "")
         /\ UNCHANGED <<matchings, userMatchings, nextId, now>>

\* PATCH /matching/join/:id, the insert and the response.
joinUser(matchingId, userId) ==
    LET c == Continuation("joinUser", matchingId, userId)
        r == addUserToMatching(matchingId, userId)
    IN  /\ BagIn(c, inflight)
        /\ inflight' = Resume(c)
        /\ userMatchings' = r.rows
        /\ last' = Respond("joinUser", Request(matchingId, userId, None, NoDto),
                         joinUserResult(r.error), "")
        /\ UNCHANGED <<matchings, nextId, now>>

\* leaveMatching starting the removal before it looks at the lookup's result.
leaveMatchingRemoveFirst(id, currentUserId, userId) ==
    LET matching == findOne(id)
        uid == IF userId = None THEN 0 ELSE Val(userId)
        request == Request(id, currentUserId, userId, NoDto)
    IN  IF matching = None
        THEN /\ CanSuspend
             /\ inflight' = Suspend(Continuation("removeUser", id, currentUserId))
             /\ last' = Respond("leaveMatching", request, "NotFoundError", "")
             /\ UNCHANGED <<matchings, userMatchings, nextId, now>>
        ELSE IF currentUserId = Val(matching).matching.ownerId
        THEN IF uid = 0
             THEN /\ last' = Respond("leaveMatching", request,
                                     "ValidationError", "missing member id")
                  /\ UNCHANGED <<matchings, userMatchings, nextId, now, inflight>>
             ELSE /\ CanSuspend
                  /\ inflight' = Suspend(Continuation("removeUser", id, uid))
                  /\ last' = Respond("leaveMatching", request, "Success", "")
                  /\ UNCHANGED <<matchings, userMatchings, nextId, now>>
        ELSE /\ CanSuspend
             /\ inflight' = Suspend(Continuation("removeUser", id, currentUserId))
             /\ last' = Respond("leaveMatching", request, "ForbiddenError",
                                "not allowed operation")
             /\ UNCHANGED <<matchings, userMatchings, nextId, now>>

\* leaveMatching without the test of uid: an owner who names no member
\* takes the branch of a caller who is not the owner.
leaveMatchingSelfLeave(id, currentUserId, userId) ==
    LET matching == findOne(id)
        uid == IF userId = None THEN 0 ELSE Val(userId)
        request == Request(id, currentUserId, userId, NoDto)
    IN  IF matching = None
        THEN /\ last' = Respond("leaveMatching", request, "NotFoundError", "")
             /\ UNCHANGED <<matchings, userMatchings, nextId, now, inflight>>
        ELSE IF currentUserId = Val(matching).matching.ownerId /\ uid # 0
        THEN /\ CanSuspend
             /\ inflight' = Suspend(Continuation("removeUser", id, uid))
             /\ last' = Respond("leaveMatching", request, "Success", "")
             /\ UNCHANGED <<matchings, userMatchings, nextId, now>>
        ELSE /\ CanSuspend
             /\ inflight' = Suspend(Continuation("removeUser", id, currentUserId))
             /\ last' = Respond("leaveMatching", request, "ForbiddenError",
                                "not allowed operation")
             /\ UNCHANGED <<matchings, userMatchings, nextId, now>>

\* PATCH /matching/leave/:id?userId=.  The lookup is awaited; removeUser is
\* called without await, so the response leaves while the delete is still
\* on its way.  userId is the query parameter: None when it is not given.
leaveMatching(id, currentUserId, userId) ==
    LET matching == findOne(id)
        uid == IF userId = None THEN 0 ELSE Val(userId)
        request == Request(id, currentUserId, userId, NoDto)
    IN  IF matching = None
        THEN /\ last' = Respond("leaveMatching", request, "NotFoundError", "")
             /\ UNCHANGED <<matchings, userMatchings, nextId, now, inflight>>
        ELSE IF currentUserId = Val(matching).matching.ownerId
        THEN IF uid = 0
             THEN /\ last' = Respond("leaveMatching", request,
                                     "ValidationError", "missing member id")
                  /\ UNCHANGED <<matchings, userMatchings, nextId, now, inflight>>
             ELSE /\ CanSuspend
                  /\ inflight' = Suspend(Continuation("removeUser", id, uid))
                  /\ last' = Respond("leaveMatching", request, "Success", "")
                  /\ UNCHANGED <<matchings, userMatchings, nextId, now>>
        ELSE /\ CanSuspend
             /\ inflight' = Suspend(Continuation("removeUser", id, currentUserId))
             /\ last' = Respond("leaveMatching", request, "ForbiddenError",
                                "not allowed operation")
             /\ UNCHANGED <<matchings, userMatchings, nextId, now>>

\* MatchingService.removeUser, running detached from the request that
\* started it: its outcome reaches no response.
removeUser(matchingId, userId) ==
    LET c == Continuation("removeUser", matchingId, userId)
        r == removeUserFromMatching(matchingId, userId)
    IN  /\ BagIn(c, inflight)
        /\ inflight' = Resume(c)
        /\ userMatchings' = r.rows
        /\ last' = Respond("removeUser",
                           Request(matchingId, userId, None, NoDto),
                           IF r.error = "none" THEN "Success"
                           ELSE "StorageError", "")
        /\ UNCHANGED <<matchings, nextId, now>>

\* remove without the comparison of ownerId with the caller.
removeAnyCaller(id, currentUserId) ==
    LET matching == findOne(id)
        request == Request(id, currentUserId, None, NoDto)
    IN  IF matching = None
        THEN /\ last' = Respond("remove", request, "NotFoundError", "")
             /\ UNCHANGED <<matchings, userMatchings, nextId, now, inflight>>
        ELSE /\ CanSuspend
             /\ inflight' = Suspend(Continuation("remove", id, currentUserId))
             /\ last' = Respond("remove", request, "pending", "")
             /\ UNCHANGED <<matchings, userMatchings, nextId, now>>

\* DELETE /matching/:id, up to the delete.
remove(id, currentUserId) ==
    LET matching == findOne(id)
        request == Request(id, currentUserId, None, NoDto)
    IN  IF matching = None
        THEN /\ last' = Respond("remove", request, "NotFoundError", "")
             /\ UNCHANGED <<matchings, userMatchings, nextId, now, inflight>>
        ELSE IF Val(matching).matching.ownerId # currentUserId
        THEN /\ last' = Respond("remove", request, "ForbiddenError",
                                "not allowed operation")
             /\ UNCHANGED <<matchings, userMatchings, nextId, now, inflight>>
        ELSE /\ CanSuspend
             /\ inflight' = Suspend(Continuation("remove", id, currentUserId))
             /\ last' = Respond("remove", request, "pending", "")
             /\ UNCHANGED <<matchings, userMatchings, nextId, now>>

\* DELETE /matching/:id, the delete and the response.
removeDelete(id, currentUserId) ==
    LET c == Continuation("remove", id, currentUserId)
        r == delete(id)
    IN  /\ BagIn(c, inflight)
        /\ inflight' = Resume(c)
        /\ matchings' = r.matchings
        /\ userMatchings' = r.rows
        /\ last' = Respond("removeDelete",
                           Request(id, currentUserId, None, NoDto),
                           IF r.error = "none" THEN "Success"
                           ELSE "StorageError", "")
        /\ UNCHANGED <<nextId, now>>

\* A sweep that also drops the userMatching rows of the CLOSED matchings.
sweepExpiredDropRows ==
    /\ matchings' = updateStatus
    /\ userMatchings' =
          [r \in {x \in BagToSet(userMatchings) :
                     updateStatus[x[1]].status # "CLOSED"}
              |-> userMatchings[r]]
    /\ last' = Response("sweepExpired", "Success", "")
    /\ UNCHANGED <<nextId, now, inflight>>

\* The periodic status sweep: one call of updateStatus.
sweepExpired ==
    /\ matchings' = updateStatus
    /\ last' = Response("sweepExpired", "Success", "")
    /\ UNCHANGED <<userMatchings, nextId, now, inflight>>

\* The clock advances.
Tick ==
    /\ now < MaxTime
    /\ now' = now + 1
    /\ last' = Response("Tick", "Success", "")
    /\ UNCHANGED <<matchings, userMatchings, nextId, inflight>>

\* ------------------------------------------------------- specifications
Durations == {-1, 0, 1}

\* The bodies a client may post: each field given or not, dates around now.
CreateMatchingDtos ==
    [matchingType : MatchingTypes,
     duration     : {None} \cup {Some(d) : d \in Durations},
     matchingDate : {None} \cup {Some(t) : t \in {now - 1, now, now + 1}},
     ownerId      : {None}]

\* The bodies posted in Spec: a scheduled matching for the next instant, and
\* the same without its date; the body may name an owner of its own.
ScheduledDtos ==
    [matchingType : {"YOTEI"},
     duration     : {None},
     matchingDate : {None, Some(now + 1)},
     ownerId      : {None} \cup {Some(u) : u \in UserIds}]

\* The pages a client may ask for, and the one asked for in Spec: the first
\* page, large enough for every matching.
ListQueries == [limit : 1..MaxMatchings, offset : 0..1]

WholePage == {[limit |-> MaxMatchings, offset |-> 0]}

Init ==
    /\ matchings = [id \in {} |-> 0]
    /\ userMatchings = EmptyBag
    /\ nextId = 1
    /\ now = 0
    /\ inflight = EmptyBag
    /\ last = Response("init", "Success", "")

\* Every operation, on scheduled matchings.
Next ==
    \/ \E u \in UserIds, dto \in ScheduledDtos : create(u, dto)
    \/ \E q \in WholePage : list(q.limit, q.offset)
    \/ \E q \in WholePage, total \in 0..MaxMatchings :
          listActive(q.limit, q.offset, total)
    \/ \E id \in MatchingIds : MatchingController_findOne(id)
    \/ \E id \in MatchingIds, u \in UserIds : joinMatching(id, u)
    \/ \E id \in MatchingIds, u \in UserIds : joinUser(id, u)
    \/ \E id \in MatchingIds, u \in UserIds,
          t \in {None} \cup {Some(x) : x \in UserIds} : leaveMatching(id, u, t)
    \/ \E id \in MatchingIds, u \in UserIds : removeUser(id, u)
    \/ \E id \in MatchingIds, u \in UserIds : remove(id, u)
    \/ \E id \in MatchingIds, u \in UserIds : removeDelete(id, u)
    \/ sweepExpired
    \/ Tick

Spec == Init /\ [][Next]_vars

\* The lifecycle alone, on every body a client may post.
NextLifecycle ==
    \/ \E u \in UserIds, dto \in CreateMatchingDtos : create(u, dto)
    \/ sweepExpired
    \/ Tick

SpecLifecycle == Init /\ [][NextLifecycle]_vars

\* The listing of every page, next to the operations that change which
\* matchings are OPEN.
NextList ==
    \/ \E u \in UserIds, dto \in ScheduledDtos : create(u, dto)
    \/ \E q \in ListQueries : list(q.limit, q.offset)
    \/ \E q \in ListQueries, total \in 0..MaxMatchings :
          listActive(q.limit, q.offset, total)
    \/ \E id \in MatchingIds, u \in UserIds : remove(id, u)
    \/ \E id \in MatchingIds, u \in UserIds : removeDelete(id, u)
    \/ sweepExpired
    \/ Tick

SpecList == Init /\ [][NextList]_vars

\* --------------------------------------------------------- properties
Copies(matchingId, userId) == CopiesIn(Row(matchingId, userId), userMatchings)

Exists(id) == id \in DOMAIN matchings

Closed(id) == Exists(id) /\ matchings[id].status = "CLOSED"

\* C1: in every reachable state, whatever the interleaving of join, leave,
\* remove and sweepExpired, each (matchingId, userId) pair appears in at most
\* one row of userMatching.
MembershipUnique ==
    \A id \in MatchingIds, u \in UserIds : Copies(id, u) <= 1

\* A duplicate insert was attempted and refused while the row is there.
MembershipUniqueWitness ==
    /\ last.op = "joinUser"
    /\ last.result = "ConflictError"
    /\ \E id \in MatchingIds, u \in UserIds : Copies(id, u) = 1

JoinMissing ==
    [][\A id \in MatchingIds, u \in UserIds :
          ~Exists(id) =>
              /\ joinMatching(id, u) =>
                    /\ last'.result = "NotFoundError"
                    /\ userMatchings' = userMatchings
                    /\ inflight' = inflight
              /\ joinUser(id, u) =>
                    /\ last'.result = "NotFoundError"
                    /\ userMatchings' = userMatchings]_vars

\* A join has just been refused with NotFoundError and some matching is
\* indeed missing.
JoinMissingWitness ==
    /\ last.op \in {"joinMatching", "joinUser"}
    /\ last.result = "NotFoundError"
    /\ \E id \in MatchingIds : ~Exists(id)

\* C4: once a matching is CLOSED, a join call made on it is rejected and
\* adds no row.  Stated for a call seen from its start: the lookup was the
\* step before, its continuation is the only one in flight, and the matching
\* was CLOSED throughout.
JoinOnClosedRejected ==
    [][\A id \in MatchingIds, u \in UserIds :
          (/\ Closed(id)
           /\ last.op = "joinMatching"
           /\ inflight = SetToBag({Continuation("joinUser", id, u)})
           /\ joinUser(id, u)) =>
              /\ last'.result # "Success"
              /\ userMatchings' = userMatchings]_vars

\* The matching's time window has elapsed at time t: a YOTEI matching at its
\* matchingDate, a QUICK matching duration after its creation.
Elapsed(m, t) ==
    \/ /\ m.matchingType = "YOTEI"
       /\ m.matchingDate # None
       /\ Val(m.matchingDate) <= t
    \/ /\ m.matchingType = "QUICK"
       /\ m.duration # None
       /\ m.createdAt + Val(m.duration) <= t

\* The data model's invariant on a row: matchingDate, when present, is
\* later than createdAt.
DateAfterCreation(m) ==
    m.matchingDate # None => Val(m.matchingDate) > m.createdAt

\* C5: right after sweepExpired has run at time now, every matching that was
\* OPEN with its window elapsed is CLOSED, and every OPEN matching whose
\* window has not elapsed is still OPEN.  Stated for the matchings that
\* satisfy the data model's invariant on matchingDate.
SweepClosesElapsed ==
    [][sweepExpired =>
          \A id \in DOMAIN matchings :
              (matchings[id].status = "OPEN"
                  /\ DateAfterCreation(matchings[id])) =>
                  (matchings'[id].status = "CLOSED"
                      <=> Elapsed(matchings[id], now))]_vars

\* C6: a sweepExpired that follows a sweepExpired at the same time changes no
\* matching.
SweepIdempotent ==
    [][(last.op = "sweepExpired" /\ sweepExpired) =>
          matchings' = matchings]_vars

\* A sweep has just run and left a CLOSED matching next to an OPEN one: the
\* state a second run starts from.
SweepIdempotentWitness ==
    /\ last.op = "sweepExpired"
    /\ \E id \in DOMAIN matchings : matchings[id].status = "CLOSED"
    /\ \E id \in DOMAIN matchings : matchings[id].status = "OPEN"

\* C7: the status of a matching changes only from OPEN to CLOSED and only in
\* a sweepExpired step; no other step changes the status of a matching it
\* keeps.
StatusOnlyClosesInSweep ==
    [][\A id \in DOMAIN matchings :
          (id \in DOMAIN matchings'
              /\ matchings'[id].status # matchings[id].status) =>
              /\ matchings[id].status = "OPEN"
              /\ matchings'[id].status = "CLOSED"
              /\ sweepExpired]_vars

\* A CLOSED matching has been through a join and is CLOSED still.
StatusOnlyClosesInSweepWitness ==
    /\ last.op = "joinUser"
    /\ \E id \in DOMAIN matchings : matchings[id].status = "CLOSED"

\* In the properties of create, the caller and the body are read off the
\* response of the step: create(u, dto) records them there, so these are the
\* only u and dto of which the step can be a create.

\* The body lacks the field its matchingType needs.
MissingField(dto) ==
    \/ (dto.matchingType = "QUICK" /\ dto.duration = None)
    \/ (dto.matchingType = "YOTEI" /\ dto.matchingDate = None)

CreateRejected ==
    /\ last'.op = "create"
    /\ last'.result = "ValidationError"
    /\ matchings' = matchings
    /\ nextId' = nextId

\* The create step added exactly the row of this owner and body.
CreateAccepted(u, dto) ==
    /\ last'.op = "create"
    /\ last'.result = "Success"
    /\ DOMAIN matchings' = DOMAIN matchings \cup {nextId}
    /\ nextId \notin DOMAIN matchings
    /\ matchings'[nextId].ownerId = u
    /\ matchings'[nextId].matchingType = dto.matchingType
    /\ matchings'[nextId].duration = dto.duration
    /\ matchings'[nextId].matchingDate = dto.matchingDate

\* C8: a create with matchingType QUICK and no duration, or YOTEI and no
\* matchingDate, fails with ValidationError and persists no matching.
CreateMissingField ==
    [][\A u \in {last'.request.user}, dto \in {last'.request.dto} :
          (MissingField(dto) /\ create(u, dto)) => CreateRejected]_vars

\* The last create was refused for a missing field.
CreateMissingFieldWitness ==
    /\ last.op = "create"
    /\ last.result = "ValidationError"
    /\ last.message = "Missing duration or matching date"

\* The rest of the body is valid: the date, when given, is later than now.
OtherwiseValid(dto) ==
    dto.matchingDate # None => Val(dto.matchingDate) > now

\* C9 as claimed: duration < 0 fails with ValidationError for either type,
\* and a QUICK create with duration 0 and otherwise valid input is created.
CreateZeroDurationAccepted ==
    [][\A u \in {last'.request.user}, dto \in {last'.request.dto} :
          create(u, dto) =>
              /\ (dto.duration # None /\ Val(dto.duration) < 0) =>
                    CreateRejected
              /\ (/\ dto.matchingType = "QUICK"
                  /\ dto.duration = Some(0)
                  /\ OtherwiseValid(dto)) => CreateAccepted(u, dto)]_vars

\* C9 as amended: duration < 0 fails with ValidationError for either type;
\* duration 0 passes the duration check but counts as no duration, so a
\* QUICK create with duration 0 fails with ValidationError, and a YOTEI
\* create with duration 0 and a matchingDate later than now is created.
CreateZeroDuration ==
    [][\A u \in {last'.request.user}, dto \in {last'.request.dto} :
          create(u, dto) =>
              /\ (dto.duration # None /\ Val(dto.duration) < 0) =>
                    CreateRejected
              /\ (dto.matchingType = "QUICK" /\ dto.duration = Some(0)) =>
                    /\ CreateRejected
                    /\ last'.message = "Missing duration or matching date"
              /\ (/\ dto.matchingType = "YOTEI"
                  /\ dto.duration = Some(0)
                  /\ dto.matchingDate # None
                  /\ Val(dto.matchingDate) > now) =>
                    CreateAccepted(u, dto)]_vars

\* A matching with duration 0 has just been created.
CreateZeroDurationWitness ==
    /\ last.op = "create"
    /\ last.result = "Success"
    /\ (nextId - 1) \in DOMAIN matchings
    /\ matchings[nextId - 1].duration = Some(0)

\* C10: a create whose matchingDate is given and is at or before now fails
\* with ValidationError and persists no matching, matchingDate = now
\* included.
CreatePastDateRejected ==
    [][\A u \in {last'.request.user}, dto \in {last'.request.dto} :
          (/\ dto.matchingDate # None
           /\ Val(dto.matchingDate) <= now
           /\ create(u, dto)) => CreateRejected]_vars

\* C11: a create that passes validation adds exactly one matching, with
\* status OPEN, createdAt now and ownerId the caller's id whatever the body
\* holds; every other matching is as before, no userMatching row is created
\* (the owner is not a member of the new matching) and nothing is started.
CreateAddsOneMatching ==
    [][\A u \in {last'.request.user}, dto \in {last'.request.dto} :
          (create(u, dto) /\ createValidation(dto) = "") =>
              /\ CreateAccepted(u, dto)
              /\ matchings'[nextId].status = "OPEN"
              /\ matchings'[nextId].createdAt = now
              /\ \A id \in DOMAIN matchings : matchings'[id] = matchings[id]
              /\ userMatchings' = userMatchings
              /\ \A r \in BagToSet(userMatchings') : r[1] # nextId
              /\ inflight' = inflight]_vars

\* A second matching has just been created from a body naming another owner
\* than the caller, while the first matching has a member.
CreateAddsOneMatchingWitness ==
    /\ last.op = "create"
    /\ last.result = "Success"
    /\ last.request.dto.ownerId # None
    /\ Val(last.request.dto.ownerId) # last.request.user
    /\ \E id \in DOMAIN matchings : id # nextId - 1 /\ RowsOf(id) # {}

\* C12: a remove on an existing matching by a caller who is not its owner
\* fails with ForbiddenError; the matching, every userMatching row and the
\* requests in flight are as before, so no delete is started.  The matching
\* and the caller are read from the request the step answers.
RemoveByNonOwner ==
    [][\A id \in {last'.request.id}, u \in {last'.request.user} :
          (Exists(id) /\ matchings[id].ownerId # u /\ remove(id, u)) =>
              /\ last'.result = "ForbiddenError"
              /\ matchings' = matchings
              /\ userMatchings' = userMatchings
              /\ inflight' = inflight]_vars

\* A remove has just been refused on a matching that exists and has members.
RemoveByNonOwnerWitness ==
    /\ last.op = "remove"
    /\ last.result = "ForbiddenError"
    /\ Exists(last.request.id)
    /\ matchings[last.request.id].ownerId # last.request.user
    /\ RowsOf(last.request.id) # {}

\* C13: the delete of a remove by the owner leaves neither the matching nor
\* a userMatching row of it, and no step, a join that was in flight during
\* the remove included, leaves a userMatching row whose matching is missing.
RemoveCascades ==
    [][/\ \A id \in {last'.request.id}, u \in {last'.request.user} :
             removeDelete(id, u) =>
                 /\ id \notin DOMAIN matchings'
                 /\ \A r \in BagToSet(userMatchings') : r[1] # id
       /\ \A r \in BagToSet(userMatchings') : r[1] \in DOMAIN matchings']_vars

\* A join that passed its lookup before the matching was removed has just
\* been refused by the insert: the matching was created and is gone, and no
\* row of it is left.
RemoveCascadesWitness ==
    /\ last.op = "joinUser"
    /\ last.result = "NotFoundError"
    /\ last.request.id < nextId
    /\ ~Exists(last.request.id)
    /\ RowsOf(last.request.id) = {}

\* Every userMatching row but (id, u) is as before the step.
OtherRowsKept(id, u) ==
    \A r \in BagToSet(userMatchings) \cup BagToSet(userMatchings') :
        r # Row(id, u) =>
            CopiesIn(r, userMatchings') = CopiesIn(r, userMatchings)

\* C14: when the owner of a matching calls leave with a userId who is a
\* member, the call answers Success and, at that answer, the row
\* (matching, userId) is gone and every other row is as before.
OwnerEvictsMember ==
    [][\A id \in {last'.request.id}, u \in {last'.request.user},
          t \in UserIds :
          (/\ Exists(id)
           /\ matchings[id].ownerId = u
           /\ Copies(id, t) > 0
           /\ leaveMatching(id, u, Some(t))) =>
              /\ last'.result = "Success"
              /\ CopiesIn(Row(id, t), userMatchings') = 0
              /\ OtherRowsKept(id, t)]_vars

\* C15: when a caller who is not the owner calls leave on an existing
\* matching, the call answers ForbiddenError and, at that answer, the
\* caller's own row is gone and every other row is as before, whatever
\* userId was given.
NonOwnerLeaves ==
    [][\A id \in {last'.request.id}, u \in {last'.request.user},
          t \in {None} \cup {Some(x) : x \in UserIds} :
          (/\ Exists(id)
           /\ matchings[id].ownerId # u
           /\ leaveMatching(id, u, t)) =>
              /\ last'.result = "ForbiddenError"
              /\ CopiesIn(Row(id, u), userMatchings') = 0
              /\ OtherRowsKept(id, u)]_vars

\* C16: a leave whose id names no matching fails with NotFoundError; no
\* userMatching row of any matching changes and no removal is started.
LeaveMissing ==
    [][\A id \in {last'.request.id}, u \in {last'.request.user},
          t \in {last'.request.target} :
          (~Exists(id) /\ leaveMatching(id, u, t)) =>
              /\ last'.result = "NotFoundError"
              /\ userMatchings' = userMatchings
              /\ inflight' = inflight]_vars

\* A leave has just been refused for a missing matching while another
\* matching has members.
LeaveMissingWitness ==
    /\ last.op = "leaveMatching"
    /\ last.result = "NotFoundError"
    /\ ~Exists(last.request.id)
    /\ userMatchings # EmptyBag

\* C18 as claimed: when the owner of a matching calls leave with no userId,
\* the call fails with ForbiddenError and the removal of the owner's own row
\* is started.
OwnerSelfLeaveForbidden ==
    [][\A id \in {last'.request.id}, u \in {last'.request.user} :
          (/\ Exists(id)
           /\ matchings[id].ownerId = u
           /\ leaveMatching(id, u, None)) =>
              /\ last'.result = "ForbiddenError"
              /\ BagIn(Continuation("removeUser", id, u), inflight')]_vars

\* C18 as amended: when the owner of a matching calls leave with no userId,
\* the call fails with ValidationError (missing member id); no userMatching
\* row changes, the owner's own included, and no removal is started.
OwnerLeaveMissingMember ==
    [][\A id \in {last'.request.id}, u \in {last'.request.user} :
          (/\ Exists(id)
           /\ matchings[id].ownerId = u
           /\ leaveMatching(id, u, None)) =>
              /\ last'.result = "ValidationError"
              /\ last'.message = "missing member id"
              /\ userMatchings' = userMatchings
              /\ inflight' = inflight]_vars

\* The owner, a member of the matching, has just called leave with no userId.
OwnerLeaveMissingMemberWitness ==
    /\ last.op = "leaveMatching"
    /\ last.result = "ValidationError"
    /\ last.request.target = None
    /\ Exists(last.request.id)
    /\ matchings[last.request.id].ownerId = last.request.user
    /\ Copies(last.request.id, last.request.user) = 1

\* C19: when the owner of a matching calls leave with a userId who is not a
\* member of it, the call answers Success and changes no userMatching row,
\* and the removal it started, finding no row, changes none either.
OwnerEvictsNonMember ==
    [][\A id \in {last'.request.id}, u \in {last'.request.user} :
          /\ \A t \in UserIds :
                (/\ Exists(id)
                 /\ matchings[id].ownerId = u
                 /\ Copies(id, t) = 0
                 /\ leaveMatching(id, u, Some(t))) =>
                    /\ last'.result = "Success"
                    /\ userMatchings' = userMatchings
          /\ (Copies(id, u) = 0 /\ removeUser(id, u)) =>
                userMatchings' = userMatchings]_vars

\* The owner has just called leave for a user who is not a member of the
\* matching, which has another member; the removal is in flight.
OwnerEvictsNonMemberWitness ==
    /\ last.op = "leaveMatching"
    /\ last.result = "Success"
    /\ Exists(last.request.id)
    /\ Copies(last.request.id, Val(last.request.target)) = 0
    /\ RowsOf(last.request.id) # {}
    /\ BagIn(Continuation("removeUser", last.request.id,
                          Val(last.request.target)), inflight)

\* C20: sweepExpired adds and removes no userMatching row and leaves the
\* requests in flight alone, joins and leaves included: the rows of a
\* matching it closes are there after it.
SweepKeepsRows ==
    [][sweepExpired =>
          /\ userMatchings' = userMatchings
          /\ inflight' = inflight]_vars

\* The sweep has just run: a CLOSED matching has a member and a join or a
\* removal is in flight.
SweepKeepsRowsWitness ==
    /\ last.op = "sweepExpired"
    /\ \E id \in MatchingIds : Closed(id) /\ RowsOf(id) # {}
    /\ \E c \in BagToSet(inflight) : c.op \in {"joinUser", "removeUser"}

\* The number of items a page of limit from offset holds out of total rows.
PageLength(limit, offset, total) ==
    IF total <= offset THEN 0
    ELSE IF total - offset < limit THEN total - offset ELSE limit

\* C17: a list with no filter answers with matchings that are OPEN, at most
\* limit of them starting at offset, and a total that is the number of OPEN
\* matchings when the items are read, whatever limit and offset are: total
\* and items agree as the count and a page of one and the same table.
ListAtomicRead ==
    [][\A q \in ListQueries, total \in 0..MaxMatchings :
          listActive(q.limit, q.offset, total) =>
              LET page == last'.page
              IN  /\ \A i \in 1..Len(page.items) :
                        /\ Exists(page.items[i])
                        /\ matchings[page.items[i]].status = "OPEN"
                  /\ Len(page.items) <= q.limit
                  /\ page.total = listActiveCount
                  /\ Len(page.items) =
                        PageLength(q.limit, q.offset, page.total)]_vars

====
